---------------------------- MODULE Spec2Model ----------------------------
(***************************************************************************)
(* The resilient countdown timer of the PomodoroTimer component            *)
(* (src/unnamed/part_003, lines 322-1024): React state, refs, the          *)
(* localStorage snapshot, the pending inserts into timer_sessions and the   *)
(* wall clock.                                                              *)
(*                                                                         *)
(* React semantics that the model keeps:                                    *)
(*  - a handler reads state through the closure of the render that created  *)
(*    it.  onClick handlers are rebound at every render, so they see the    *)
(*    committed state; the interval callback and the visibilitychange       *)
(*    handler are created by effects with dependency [isRunning], so they   *)
(*    see the render in which isRunning last changed (effClosure); the      *)
(*    restore effect runs in the mount render, which holds the useState     *)
(*    defaults; the code after an await keeps the closure of its caller.    *)
(*  - refs (endAtRef, tickRef, autoSavedRef) are read live.                 *)
(*  - the setState calls of one handler are batched; the re-render and the  *)
(*    effects whose dependencies changed run before the next event          *)
(*    (CommitRender).  One action = handler + re-render + effects.          *)
(*                                                                         *)
(* Times are epoch milliseconds; null endAt is 0 (the code tests `!endAt`). *)
(* The updatedAt field of the snapshot is written and never read; it is     *)
(* left out.                                                                *)
(***************************************************************************)
EXTENDS Integers, Sequences, FiniteSets, TLC

\* ------------------------------------------------------------- constants
STORAGE_VERSION == 1
DefaultMinutes == 25
MinSaveMs == 60000
MinMinutes == 1
MaxMinutes == 999
DefaultName == "Pomodoro Session"

\* ---------------------------------------------------------------- bounds
\* Events happen at the instants of a finite set: every half minute up to
\* SmallSteps half minutes, when a default session started at 0 ends, and half
\* a minute later
SmallSteps == 3
Instants == {k * 30000 : k \in 0..SmallSteps}
                \cup {DefaultMinutes * 60000, DefaultMinutes * 60000 + 30000}
\* inserts that may be pending at once
MaxInflight == 2
\* largest duration of the minutes-and-seconds component's states
TimerMinutes == 2

\* arguments given to handleDurationChange (preset button and custom input)
DurationInputs == {0, 25}
\* the duration of the tick-path scenario, and the instants of its clock
ScenarioMinutes == 10
DurationInputs10 == {ScenarioMinutes}
Instants10 == {0, 60000, ScenarioMinutes * 60000, ScenarioMinutes * 60000 + 60000}
\* texts typed into the session name field
NameInputs == {"", "Math"}

NoSnapshot == [version |-> 0]

\* loadLectures calls that may be awaiting their rows at once
MaxLoads == 2
\* subjects of the subject select, and the user's lectures with their subjects
Subjects == {"General", "Bio", "Chem"}
LectureRows == {[id |-> "L1", subject_name |-> "Bio"],
                [id |-> "L2", subject_name |-> "Bio"],
                [id |-> "L3", subject_name |-> "Chem"]}

VARIABLES
    now,            \* Date.now()
    initialMinutes, remainingMs, isRunning, isFinished, isSaving, sessionName,
    endAtRef, tickRef, autoSavedRef,
    liveTicks,      \* intervals set by setInterval and not cleared
    effClosure,     \* render captured by the interval callback and by onVis
    storage,        \* localStorage[storageKey], NoSnapshot when absent
    inflight,       \* inserts awaiting their result, with the caller's closure
    autoIssued,     \* auto-save inserts issued in the current lifecycle
    autoStored,     \* auto-save rows stored for the current lifecycle
    lifeStored,     \* rows stored for the current lifecycle, auto or manual
    autoFailed,     \* an auto-save insert of the current lifecycle has failed
                    \* while no row of the lifecycle was stored
    clean,          \* no insert was pending when the current lifecycle began
    ranMs,          \* wall-clock time spent Running, on this page, since the
                    \* timer last stood at its whole duration; -1 once the
                    \* countdown has completed or the page was loaded with a
                    \* countdown under way
    lastOp,         \* the operation that produced the current state
    category,           \* the subject select
    selectedLectureId,  \* the lecture select, "none" when no lecture
    lectures,           \* ids of the lectures listed in the lecture select
    lectureLoads,       \* subjects of the loadLectures calls awaiting their rows
    requested           \* lecture asked for by the start-lecture shortcut since
                        \* the user last touched the two selects, else "none"

vars == <<now, initialMinutes, remainingMs, isRunning, isFinished, isSaving,
          sessionName, endAtRef, tickRef, autoSavedRef, liveTicks, effClosure,
          storage, inflight, autoIssued, autoStored, lifeStored, autoFailed, clean, ranMs,
          lastOp, category, selectedLectureId, lectures, lectureLoads, requested>>

timerVars == <<now, initialMinutes, remainingMs, isRunning, isFinished, isSaving,
               sessionName, endAtRef, tickRef, autoSavedRef, liveTicks, effClosure,
               storage, inflight, autoIssued, autoStored, lifeStored, autoFailed, clean,
               ranMs, lastOp>>
lectureVars == <<category, selectedLectureId, lectures, lectureLoads, requested>>

\* ---------------------------------------------------------------- helpers
Max(a, b) == IF a >= b THEN a ELSE b
Min(a, b) == IF a <= b THEN a ELSE b

clamp(n, min, max) == Max(min, Min(max, n))

\* Math.ceil(elapsedMs / 60000) for elapsedMs >= 0
CeilMinutes(elapsedMs) == (elapsedMs + 59999) \div 60000

\* the state held by useState at the first render
DefaultState ==
    [initialMinutes |-> DefaultMinutes, remainingMs |-> DefaultMinutes * 60 * 1000,
     isRunning |-> FALSE, isFinished |-> FALSE, isSaving |-> FALSE,
     sessionName |-> ""]

\* the committed render
Render ==
    [initialMinutes |-> initialMinutes, remainingMs |-> remainingMs,
     isRunning |-> isRunning, isFinished |-> isFinished, isSaving |-> isSaving,
     sessionName |-> sessionName]

\* the mutable machine a handler works on: s is the state the batched
\* setState calls have produced so far
Machine ==
    [s |-> Render, endAtRef |-> endAtRef, tickRef |-> tickRef, live |-> liveTicks,
     autoSavedRef |-> autoSavedRef, eff |-> effClosure, storage |-> storage,
     inflight |-> inflight]

\* ------------------------------------------------------------ persistence
\* writeStorage(partial) called from a closure c: base is built from the
\* closure's state and the live refs, partial overrides it
writeStorage(m, c, partial) ==
    LET base == [version |-> STORAGE_VERSION,
                 isRunning |-> c.isRunning,
                 endAt |-> m.endAtRef,
                 remainingMs |-> c.remainingMs,
                 initialMinutes |-> c.initialMinutes,
                 sessionName |-> c.sessionName,
                 finished |-> c.isFinished,
                 autoSaved |-> m.autoSavedRef]
    IN [m EXCEPT !.storage = partial @@ base]

\* a read that does not look at the version tag
readStorage_anyVersion(raw) == raw

readStorage(raw) ==
    IF raw.version # STORAGE_VERSION THEN NoSnapshot ELSE raw

\* ----------------------------------------------------- finish and autosave
\* an auto-save that records the elapsed time its closure sees instead of
\* the configured duration
autoSaveAtFinish_elapsed(m, c) ==
    IF c.initialMinutes <= 0 THEN m
    ELSE IF c.isSaving THEN m
    ELSE [m EXCEPT !.s.isSaving = TRUE,
                   !.inflight = Append(@, [kind |-> "auto", c |-> c,
                                           name |-> IF c.sessionName = "" THEN DefaultName
                                                    ELSE c.sessionName,
                                           duration_minutes |->
                                               CeilMinutes(c.initialMinutes * 60 * 1000
                                                           - c.remainingMs),
                                           cur |-> TRUE])]

\* the insert of autoSaveAtFinish up to its await
autoSaveAtFinish(m, c) ==
    IF c.initialMinutes <= 0 THEN m
    ELSE IF c.isSaving THEN m
    ELSE [m EXCEPT !.s.isSaving = TRUE,
                   !.inflight = Append(@, [kind |-> "auto", c |-> c,
                                           name |-> IF c.sessionName = "" THEN DefaultName
                                                    ELSE c.sessionName,
                                           duration_minutes |-> c.initialMinutes,
                                           cur |-> TRUE])]

finalizeFinish(m, c) ==
    LET m1 == writeStorage([m EXCEPT !.s.isFinished = TRUE], c,
                           [finished |-> TRUE, isRunning |-> FALSE, endAt |-> 0,
                            remainingMs |-> 0])
    IN IF ~m1.autoSavedRef
       THEN autoSaveAtFinish(
                writeStorage([m1 EXCEPT !.autoSavedRef = TRUE], c, [autoSaved |-> TRUE]), c)
       ELSE m1

\* autoSaveAtFinish after its await
autoSaveResult(m, c, ok) ==
    LET m1 == IF ok
              THEN writeStorage(m, c, [autoSaved |-> TRUE, finished |-> TRUE])
              ELSE writeStorage([m EXCEPT !.autoSavedRef = FALSE], c, [autoSaved |-> FALSE])
    IN [m1 EXCEPT !.s.isSaving = FALSE]

\* ------------------------------------------------------------------ effects
\* clearInterval(tickRef.current) when the ref holds an interval
stopTick(m) ==
    IF m.tickRef THEN [m EXCEPT !.tickRef = FALSE, !.live = @ - 1] ELSE m

\* a tick effect whose not-running branch leaves the interval alone
tickEffect_keepsTicking(m, c, t) ==
    IF ~c.isRunning
    THEN writeStorage([m EXCEPT !.eff = c], c,
                      [isRunning |-> FALSE, endAt |-> m.endAtRef,
                       remainingMs |-> c.remainingMs])
    ELSE LET m1 == IF m.endAtRef = 0
                   THEN writeStorage([m EXCEPT !.endAtRef = t + c.remainingMs], c,
                                     [isRunning |-> TRUE, endAt |-> t + c.remainingMs])
                   ELSE m
         IN [stopTick(m1) EXCEPT !.tickRef = TRUE, !.live = @ + 1, !.eff = c]

\* useEffect [isRunning] (tick engine); onVis is re-subscribed by the effect
\* with the same dependency, so both capture the closure c
tickEffect(m, c, t) ==
    IF ~c.isRunning
    THEN writeStorage([stopTick(m) EXCEPT !.eff = c], c,
                      [isRunning |-> FALSE, endAt |-> m.endAtRef,
                       remainingMs |-> c.remainingMs])
    ELSE LET m1 == IF m.endAtRef = 0
                   THEN writeStorage([m EXCEPT !.endAtRef = t + c.remainingMs], c,
                                     [isRunning |-> TRUE, endAt |-> t + c.remainingMs])
                   ELSE m
         IN [stopTick(m1) EXCEPT !.tickRef = TRUE, !.live = @ + 1, !.eff = c]

\* useEffect [remainingMs, initialMinutes, sessionName, ..., isFinished]
syncEffect(m, c) == writeStorage(m, c, <<>>)

\* the re-render after a batch of setState calls: old is the previous render,
\* m.s the new one; effects run in declaration order when a dependency changed
CommitRender(m, old, t) ==
    LET c == m.s
        m1 == IF c.isRunning # old.isRunning THEN tickEffect(m, c, t) ELSE m
    IN IF \/ c.remainingMs # old.remainingMs
          \/ c.initialMinutes # old.initialMinutes
          \/ c.sessionName # old.sessionName
          \/ c.isFinished # old.isFinished
       THEN syncEffect(m1, c)
       ELSE m1

\* the callback of window.setInterval(..., 250)
tickCallback(m, c, t) ==
    LET endAt == m.endAtRef
    IN IF endAt = 0 THEN m
       ELSE IF endAt - t <= 0
       THEN finalizeFinish([m EXCEPT !.s.remainingMs = 0, !.s.isRunning = FALSE,
                                     !.endAtRef = 0], c)
       ELSE [m EXCEPT !.s.remainingMs = endAt - t]

\* the visibilitychange handler
onVis(m, c, t) ==
    IF ~c.isRunning THEN m
    ELSE IF m.endAtRef = 0 THEN m
    ELSE IF m.endAtRef - t <= 0
    THEN finalizeFinish([m EXCEPT !.s.remainingMs = 0, !.s.isRunning = FALSE,
                                  !.endAtRef = 0], c)
    ELSE [m EXCEPT !.s.remainingMs = m.endAtRef - t]

\* a restore that marks an expired countdown finished but never runs
\* finalizeFinish for it
restoreEffect_noFinalize(m, c, t) ==
    LET stored == readStorage(m.storage)
    IN IF stored = NoSnapshot
       THEN [m EXCEPT !.endAtRef = 0, !.autoSavedRef = FALSE, !.s = DefaultState]
       ELSE
         LET m1 == [m EXCEPT !.autoSavedRef = stored.autoSaved,
                             !.s.initialMinutes = clamp(stored.initialMinutes,
                                                        MinMinutes, MaxMinutes),
                             !.s.sessionName = stored.sessionName,
                             !.s.isFinished = stored.finished]
         IN IF stored.isRunning /\ stored.endAt # 0
            THEN IF stored.endAt - t <= 0
                 THEN [m1 EXCEPT !.endAtRef = 0, !.s.remainingMs = 0,
                                 !.s.isRunning = FALSE, !.s.isFinished = TRUE]
                 ELSE [m1 EXCEPT !.endAtRef = stored.endAt,
                                 !.s.remainingMs = stored.endAt - t,
                                 !.s.isRunning = TRUE]
            ELSE LET m2 == [m1 EXCEPT !.endAtRef = 0,
                                      !.s.remainingMs = Max(0, stored.remainingMs),
                                      !.s.isRunning = FALSE]
                 IN IF stored.finished /\ ~stored.autoSaved
                    THEN finalizeFinish(m2, c)
                    ELSE m2

\* useEffect [user]: restore from localStorage; c is the mount render
restoreEffect(m, c, t) ==
    LET stored == readStorage(m.storage)
    IN IF stored = NoSnapshot
       THEN [m EXCEPT !.endAtRef = 0, !.autoSavedRef = FALSE, !.s = DefaultState]
       ELSE
         LET m1 == [m EXCEPT !.autoSavedRef = stored.autoSaved,
                             !.s.initialMinutes = clamp(stored.initialMinutes,
                                                        MinMinutes, MaxMinutes),
                             !.s.sessionName = stored.sessionName,
                             !.s.isFinished = stored.finished]
         IN IF stored.isRunning /\ stored.endAt # 0
            THEN IF stored.endAt - t <= 0
                 THEN finalizeFinish([m1 EXCEPT !.endAtRef = 0, !.s.remainingMs = 0,
                                                !.s.isRunning = FALSE], c)
                 ELSE [m1 EXCEPT !.endAtRef = stored.endAt,
                                 !.s.remainingMs = stored.endAt - t,
                                 !.s.isRunning = TRUE]
            ELSE LET m2 == [m1 EXCEPT !.endAtRef = 0,
                                      !.s.remainingMs = Max(0, stored.remainingMs),
                                      !.s.isRunning = FALSE]
                 IN IF stored.finished /\ ~stored.autoSaved
                    THEN finalizeFinish(m2, c)
                    ELSE m2

\* the component is mounted over the snapshot raw at time t: first render with
\* the useState defaults, its effects in declaration order, then the re-render
mount(raw, t) ==
    LET m0 == [s |-> DefaultState, endAtRef |-> 0, tickRef |-> FALSE, live |-> 0,
               autoSavedRef |-> FALSE, eff |-> DefaultState, storage |-> raw,
               inflight |-> <<>>]
        m1 == restoreEffect(m0, DefaultState, t)
        m2 == tickEffect(m1, DefaultState, t)
        m3 == syncEffect(m2, DefaultState)
    IN CommitRender(m3, DefaultState, t)

\* ----------------------------------------------------------------- controls
\* a start that does not test the remaining time
handleStart_noGuard(m, c, t) ==
    LET m1 == IF ~c.isRunning
              THEN [m EXCEPT !.autoSavedRef = FALSE, !.s.isFinished = FALSE]
              ELSE m
        m2 == IF m1.endAtRef = 0
              THEN [m1 EXCEPT !.endAtRef = t + c.remainingMs]
              ELSE m1
    IN writeStorage([m2 EXCEPT !.s.isRunning = TRUE], c,
                    [isRunning |-> TRUE, endAt |-> m2.endAtRef, finished |-> FALSE,
                     autoSaved |-> m2.autoSavedRef])

handleStart(m, c, t) ==
    IF c.remainingMs <= 0 THEN m
    ELSE
      LET m1 == IF ~c.isRunning
                THEN [m EXCEPT !.autoSavedRef = FALSE, !.s.isFinished = FALSE]
                ELSE m
          m2 == IF m1.endAtRef = 0
                THEN [m1 EXCEPT !.endAtRef = t + c.remainingMs]
                ELSE m1
      IN writeStorage([m2 EXCEPT !.s.isRunning = TRUE], c,
                      [isRunning |-> TRUE, endAt |-> m2.endAtRef, finished |-> FALSE,
                       autoSaved |-> m2.autoSavedRef])

\* a pause that keeps the remaining time of the last render instead of
\* recomputing it from endAt
handlePause_lastRender(m, c, t) ==
    IF ~c.isRunning THEN m
    ELSE
      LET msLeft == c.remainingMs
      IN writeStorage([m EXCEPT !.endAtRef = 0, !.s.remainingMs = msLeft,
                                !.s.isRunning = FALSE], c,
                      [isRunning |-> FALSE, endAt |-> 0, remainingMs |-> msLeft])

\* a pause that stores endAt - now without the lower bound of zero
handlePause_unclamped(m, c, t) ==
    IF ~c.isRunning THEN m
    ELSE
      LET msLeft == IF m.endAtRef # 0 THEN m.endAtRef - t ELSE c.remainingMs
      IN writeStorage([m EXCEPT !.endAtRef = 0, !.s.remainingMs = msLeft,
                                !.s.isRunning = FALSE], c,
                      [isRunning |-> FALSE, endAt |-> 0, remainingMs |-> msLeft])

handlePause(m, c, t) ==
    IF ~c.isRunning THEN m
    ELSE
      LET msLeft == IF m.endAtRef # 0 THEN Max(0, m.endAtRef - t) ELSE c.remainingMs
      IN writeStorage([m EXCEPT !.endAtRef = 0, !.s.remainingMs = msLeft,
                                !.s.isRunning = FALSE], c,
                      [isRunning |-> FALSE, endAt |-> 0, remainingMs |-> msLeft])

\* a reset that leaves autoSavedRef as it is
handleReset_keepsFlag(m, c) ==
    writeStorage([stopTick(m) EXCEPT !.endAtRef = 0,
                                     !.s.isRunning = FALSE,
                                     !.s.remainingMs = c.initialMinutes * 60 * 1000,
                                     !.s.isFinished = FALSE], c,
                 [isRunning |-> FALSE, endAt |-> 0,
                  remainingMs |-> c.initialMinutes * 60 * 1000,
                  finished |-> FALSE])

handleReset(m, c) ==
    writeStorage([stopTick(m) EXCEPT !.endAtRef = 0,
                                     !.s.isRunning = FALSE,
                                     !.s.remainingMs = c.initialMinutes * 60 * 1000,
                                     !.s.isFinished = FALSE,
                                     !.autoSavedRef = FALSE], c,
                 [isRunning |-> FALSE, endAt |-> 0,
                  remainingMs |-> c.initialMinutes * 60 * 1000,
                  finished |-> FALSE, autoSaved |-> FALSE])

handleDurationChange(m, c, newMinutes) ==
    IF c.isRunning THEN m
    ELSE
      LET safe == clamp(newMinutes, MinMinutes, MaxMinutes)
      IN writeStorage([m EXCEPT !.s.initialMinutes = safe,
                                !.s.remainingMs = safe * 60 * 1000,
                                !.s.isFinished = FALSE,
                                !.autoSavedRef = FALSE], c,
                      [initialMinutes |-> safe, remainingMs |-> safe * 60 * 1000,
                       finished |-> FALSE, autoSaved |-> FALSE, isRunning |-> FALSE,
                       endAt |-> 0])

\* a manual save without the one-minute threshold
handleSaveManual_noThreshold(m, c) ==
    IF m.autoSavedRef THEN m
    ELSE
      LET elapsedMs == c.initialMinutes * 60 * 1000 - c.remainingMs
      IN [m EXCEPT !.s.isSaving = TRUE,
                   !.inflight = Append(@, [kind |-> "manual", c |-> c,
                                           name |-> IF c.sessionName = ""
                                                    THEN DefaultName
                                                    ELSE c.sessionName,
                                           duration_minutes |-> CeilMinutes(elapsedMs),
                                           cur |-> TRUE])]

\* a manual save that does not look at autoSavedRef
handleSaveManual_noFlag(m, c) ==
    LET elapsedMs == c.initialMinutes * 60 * 1000 - c.remainingMs
    IN IF elapsedMs < MinSaveMs THEN m
       ELSE [m EXCEPT !.s.isSaving = TRUE,
                      !.inflight = Append(@, [kind |-> "manual", c |-> c,
                                              name |-> IF c.sessionName = ""
                                                       THEN DefaultName
                                                       ELSE c.sessionName,
                                              duration_minutes |-> CeilMinutes(elapsedMs),
                                              cur |-> TRUE])]

\* handleSaveManual up to its await
handleSaveManual(m, c) ==
    IF m.autoSavedRef THEN m
    ELSE
      LET elapsedMs == c.initialMinutes * 60 * 1000 - c.remainingMs
      IN IF elapsedMs < MinSaveMs THEN m
         ELSE [m EXCEPT !.s.isSaving = TRUE,
                        !.inflight = Append(@, [kind |-> "manual", c |-> c,
                                                name |-> IF c.sessionName = ""
                                                         THEN DefaultName
                                                         ELSE c.sessionName,
                                                duration_minutes |-> CeilMinutes(elapsedMs),
                                                cur |-> TRUE])]

\* handleSaveManual after its await
manualSaveResult(m, c, ok) ==
    LET m1 == IF ok
              THEN handleReset(
                       writeStorage([m EXCEPT !.s.sessionName = "",
                                              !.autoSavedRef = TRUE], c,
                                    [autoSaved |-> TRUE]), c)
              ELSE m
    IN [m1 EXCEPT !.s.isSaving = FALSE]

\* ------------------------------------------- components/PomodoroTimer.tsx
\* The component of src/components counts minutes and seconds down and has
\* neither snapshot nor auto-save.  Its state, over small values:
PomodoroTimerStates ==
    [minutes : 0..TimerMinutes, seconds : {0, 1, 59}, initialMinutes : 1..TimerMinutes,
     isRunning : BOOLEAN, isFinished : BOOLEAN, isSaving : BOOLEAN, inserts : {<<>>}]

PomodoroTimer_handleStart(s) ==
    IF s.minutes = 0 /\ s.seconds = 0 THEN s
    ELSE [s EXCEPT !.isFinished = FALSE, !.isRunning = TRUE]

\* handleSave up to its await
PomodoroTimer_handleSave(s) ==
    LET totalSeconds == s.initialMinutes * 60 - (s.minutes * 60 + s.seconds)
    IN IF totalSeconds < 60 THEN s
       ELSE [s EXCEPT !.isSaving = TRUE,
                      !.inserts = Append(@, (totalSeconds + 59) \div 60)]

\* ------------------------------------------------------------------ actions
RemoveAt(seq, i) == SubSeq(seq, 1, i - 1) \o SubSeq(seq, i + 1, Len(seq))

\* the auto-save inserts a handler has appended to the pending ones
IssuedAuto(m, before) ==
    Cardinality({i \in (Len(before) + 1)..Len(m.inflight) : m.inflight[i].kind = "auto"})

\* The machine m left by a handler (and its re-render) becomes the state.
\* fresh: the handler began a new lifecycle (reset, duration change, start of
\* a stopped timer), which the pending inserts no longer belong to
Become(m, op, fresh) ==
    /\ Len(m.inflight) <= MaxInflight
    /\ initialMinutes' = m.s.initialMinutes
    /\ remainingMs' = m.s.remainingMs
    /\ isRunning' = m.s.isRunning
    /\ isFinished' = m.s.isFinished
    /\ isSaving' = m.s.isSaving
    /\ sessionName' = m.s.sessionName
    /\ endAtRef' = m.endAtRef
    /\ tickRef' = m.tickRef
    /\ liveTicks' = m.live
    /\ autoSavedRef' = m.autoSavedRef
    /\ effClosure' = m.eff
    /\ storage' = m.storage
    /\ inflight' = IF fresh
                   THEN [i \in 1..Len(m.inflight) |-> [m.inflight[i] EXCEPT !.cur = FALSE]]
                   ELSE m.inflight
    /\ lastOp' = op
    /\ UNCHANGED lectureVars

SameLife == UNCHANGED <<autoIssued, autoStored, lifeStored, autoFailed, clean>>
NewLife ==
    /\ autoIssued' = 0
    /\ autoStored' = 0
    /\ lifeStored' = 0
    /\ autoFailed' = FALSE
    /\ clean' = (inflight' = <<>>)

\* the running time after a step that took elapsed ms and left the machine m
Ran(m, elapsed) ==
    IF m.s.isFinished /\ ~isFinished THEN -1
    ELSE IF ranMs >= 0 /\ isRunning THEN ranMs + elapsed
    ELSE ranMs

\* the running time after a reset that left the machine m: it is measured
\* from a timer that shows its whole duration
Rewound(m) == IF m.s.remainingMs = m.s.initialMinutes * 60 * 1000 THEN 0 ELSE -1

Start ==
    LET m == CommitRender(handleStart(Machine, Render, now), Render, now)
        fresh == remainingMs > 0 /\ ~isRunning
    IN /\ Become(m, "start", fresh)
       /\ IF fresh THEN NewLife ELSE SameLife
       /\ UNCHANGED <<now, ranMs>>

Pause ==
    LET m == CommitRender(handlePause(Machine, Render, now), Render, now)
    IN /\ Become(m, "pause", FALSE)
       /\ SameLife
       /\ UNCHANGED <<now, ranMs>>

Reset ==
    LET m == CommitRender(handleReset(Machine, Render), Render, now)
    IN /\ Become(m, "reset", TRUE)
       /\ NewLife
       /\ ranMs' = Rewound(m)
       /\ UNCHANGED now

DurationChangeIn(inputs) ==
    \E newMinutes \in inputs :
        LET m == CommitRender(handleDurationChange(Machine, Render, newMinutes), Render, now)
            fresh == ~isRunning
        IN /\ Become(m, "duration", fresh)
           /\ IF fresh THEN NewLife ELSE SameLife
           /\ ranMs' = IF fresh THEN Rewound(m) ELSE ranMs
           /\ UNCHANGED now

DurationChange == DurationChangeIn(DurationInputs)

\* the Save button is disabled while isSaving; its other two conditions are
\* tested again by the handler
SaveManual ==
    /\ ~isSaving
    /\ LET m == CommitRender(handleSaveManual(Machine, Render), Render, now)
       IN Become(m, "save", FALSE)
    /\ SameLife
    /\ UNCHANGED <<now, ranMs>>

Tick ==
    /\ liveTicks > 0
    /\ LET m == CommitRender(tickCallback(Machine, effClosure, now), Render, now)
       IN /\ Become(m, "tick", FALSE)
          /\ autoIssued' = autoIssued + IssuedAuto(m, inflight)
          /\ ranMs' = Ran(m, 0)
    /\ UNCHANGED <<now, autoStored, lifeStored, autoFailed, clean>>

Visible ==
    /\ LET m == CommitRender(onVis(Machine, effClosure, now), Render, now)
       IN /\ Become(m, "visible", FALSE)
          /\ autoIssued' = autoIssued + IssuedAuto(m, inflight)
          /\ ranMs' = Ran(m, 0)
    /\ UNCHANGED <<now, autoStored, lifeStored, autoFailed, clean>>

\* the insert of an auto-save returns
AutoResult ==
    \E i \in 1..Len(inflight), ok \in BOOLEAN :
        LET e == inflight[i]
            m == CommitRender(autoSaveResult([Machine EXCEPT !.inflight = RemoveAt(inflight, i)],
                                             e.c, ok),
                              Render, now)
        IN /\ e.kind = "auto"
           /\ Become(m, (IF e.cur THEN "auto" ELSE "oldAuto") \o (IF ok THEN "Saved" ELSE "Failed"),
                     FALSE)
           /\ autoStored' = IF ok /\ e.cur THEN autoStored + 1 ELSE autoStored
           /\ lifeStored' = IF ok /\ e.cur THEN lifeStored + 1 ELSE lifeStored
           /\ autoFailed' = (autoFailed \/ (~ok /\ e.cur /\ lifeStored = 0))
           /\ UNCHANGED <<now, autoIssued, clean, ranMs>>

\* the insert of a manual save returns; on success the handler resets the
\* timer, which begins a new lifecycle
ManualResult ==
    \E i \in 1..Len(inflight), ok \in BOOLEAN :
        LET e == inflight[i]
            m == CommitRender(manualSaveResult([Machine EXCEPT !.inflight = RemoveAt(inflight, i)],
                                               e.c, ok),
                              Render, now)
        IN /\ e.kind = "manual"
           /\ Become(m, (IF e.cur THEN "manual" ELSE "oldManual") \o (IF ok THEN "Saved" ELSE "Failed"),
                     ok)
           /\ IF ok THEN NewLife ELSE SameLife
           /\ ranMs' = IF ok THEN Rewound(m) ELSE ranMs
           /\ UNCHANGED now

\* the user types into the session name field
EditName ==
    /\ \E v \in NameInputs :
          LET m == CommitRender([Machine EXCEPT !.s.sessionName = v], Render, now)
          IN /\ v # sessionName
             /\ Become(m, "edit", FALSE)
    /\ SameLife
    /\ UNCHANGED <<now, ranMs>>

\* the wall clock advances; no callback is delivered (throttling, suspension)
AdvanceClockIn(instants) ==
    /\ \E t \in instants :
          /\ t > now
          /\ now' = t
    /\ ranMs' = IF ranMs >= 0 /\ isRunning THEN ranMs + (now' - now) ELSE ranMs
    /\ lastOp' = "clock"
    /\ UNCHANGED <<initialMinutes, remainingMs, isRunning, isFinished, isSaving,
                   sessionName, endAtRef, tickRef, autoSavedRef, liveTicks, effClosure,
                   storage, inflight, autoIssued, autoStored, lifeStored, autoFailed,
                   clean, lectureVars>>

AdvanceClock == AdvanceClockIn(Instants)

\* The page is torn down and is loaded again at a later instant.  A pending
\* insert is lost with the page: its row was stored or not (stored), and its
\* result is never seen.
ReloadIn(instants) ==
    \E t \in instants, stored \in SUBSET (1..Len(inflight)) :
        LET m == mount(storage, t)
            mine == {i \in stored : inflight[i].cur}
        IN /\ t > now
           /\ now' = t
           /\ Become(m, "mount", FALSE)
           /\ autoIssued' = autoIssued + IssuedAuto(m, <<>>)
           /\ autoStored' = autoStored + Cardinality({i \in mine : inflight[i].kind = "auto"})
           /\ lifeStored' = lifeStored + Cardinality(mine)
           /\ UNCHANGED autoFailed
           /\ ranMs' = IF m.s.isRunning \/ m.s.isFinished THEN -1 ELSE Rewound(m)
           /\ UNCHANGED clean

Reload == ReloadIn(Instants)

\* what the page may find in place of the snapshot it wrote: nothing (removed,
\* or not parsable), or a snapshot of another schema version
LostSnapshots ==
    {NoSnapshot, [storage EXCEPT !.version = STORAGE_VERSION + 1]}

\* The page is loaded again after its snapshot was lost.
ReloadLostIn(instants) ==
    \E t \in instants, raw \in LostSnapshots :
        LET m == mount(raw, t)
        IN /\ t > now
           /\ now' = t
           /\ Become(m, IF raw = NoSnapshot THEN "mountMissing" ELSE "mountOtherVersion",
                     TRUE)
           /\ NewLife
           /\ ranMs' = Rewound(m)

ReloadLost == ReloadLostIn(Instants)

\* first load of the page, nothing stored
Init ==
    LET m == mount(NoSnapshot, 0)
    IN /\ now = 0
       /\ initialMinutes = m.s.initialMinutes
       /\ remainingMs = m.s.remainingMs
       /\ isRunning = m.s.isRunning
       /\ isFinished = m.s.isFinished
       /\ isSaving = m.s.isSaving
       /\ sessionName = m.s.sessionName
       /\ endAtRef = m.endAtRef
       /\ tickRef = m.tickRef
       /\ liveTicks = m.live
       /\ autoSavedRef = m.autoSavedRef
       /\ effClosure = m.eff
       /\ storage = m.storage
       /\ inflight = m.inflight
       /\ autoIssued = 0
       /\ autoStored = 0
       /\ lifeStored = 0
       /\ autoFailed = FALSE
       /\ clean = TRUE
       /\ ranMs = 0
       /\ lastOp = "mount"
       /\ category = "General"
       /\ selectedLectureId = "none"
       /\ lectures = {}
       /\ lectureLoads = <<"General">>
       /\ requested = "none"

Next ==
    \/ Start
    \/ Pause
    \/ Reset
    \/ DurationChange
    \/ SaveManual
    \/ Tick
    \/ Visible
    \/ AutoResult
    \/ ManualResult
    \/ EditName
    \/ AdvanceClock
    \/ Reload
    \/ ReloadLost

Spec == Init /\ [][Next]_vars

\* The same program with a 10-minute duration on offer and a clock that
\* reaches the end of a 10-minute countdown.
DurationChange10 == DurationChangeIn(DurationInputs10)
AdvanceClock10 == AdvanceClockIn(Instants10)
Reload10 == ReloadIn(Instants10)
ReloadLost10 == ReloadLostIn(Instants10)

Next10 ==
    \/ Start
    \/ Pause
    \/ Reset
    \/ DurationChange10
    \/ SaveManual
    \/ Tick
    \/ Visible
    \/ AutoResult
    \/ ManualResult
    \/ EditName
    \/ AdvanceClock10
    \/ Reload10
    \/ ReloadLost10

Spec10 == Init /\ [][Next10]_vars

\* ------------------------------------------- subject and lecture selects
\* useEffect [user, category, lecturesVersion]: a changed subject starts a
\* loadLectures call for it
loadLecturesEffect(old, new, loads) ==
    IF new # old THEN Append(loads, new) ELSE loads

\* App.handleStartLecture sets startLectureData; the shortcut effect of the
\* timer sets subject and lecture from it and clears it again
StartLecture ==
    \E l \in LectureRows :
        /\ category' = l.subject_name
        /\ selectedLectureId' = l.id
        /\ lectureLoads' = loadLecturesEffect(category, l.subject_name, lectureLoads)
        /\ Len(lectureLoads') <= MaxLoads
        /\ requested' = l.id
        /\ UNCHANGED <<lectures, timerVars>>

\* the user picks another subject
SelectCategory ==
    \E v \in Subjects :
        /\ v # category
        /\ category' = v
        /\ lectureLoads' = loadLecturesEffect(category, v, lectureLoads)
        /\ Len(lectureLoads') <= MaxLoads
        /\ requested' = "none"
        /\ UNCHANGED <<selectedLectureId, lectures, timerVars>>

\* the user picks a listed lecture, or no lecture
SelectLecture ==
    \E v \in lectures \cup {"none"} :
        /\ v # selectedLectureId
        /\ selectedLectureId' = v
        /\ requested' = "none"
        /\ UNCHANGED <<category, lectures, lectureLoads, timerVars>>

\* the lectures tab reports a change: lecturesVersion goes up and the effect
\* loads the lectures of the current subject again
LecturesChanged ==
    /\ Len(lectureLoads) < MaxLoads
    /\ lectureLoads' = Append(lectureLoads, category)
    /\ UNCHANGED <<category, selectedLectureId, lectures, requested, timerVars>>

\* loadLectures after its await: the rows, or none on error, are listed and
\* the lecture select is put back to "none"
LecturesLoaded ==
    \E i \in 1..Len(lectureLoads), ok \in BOOLEAN :
        /\ lectures' = IF ok
                       THEN {l.id : l \in {r \in LectureRows :
                                              r.subject_name = lectureLoads[i]}}
                       ELSE {}
        /\ selectedLectureId' = "none"
        /\ lectureLoads' = RemoveAt(lectureLoads, i)
        /\ UNCHANGED <<category, requested, timerVars>>

NextLecture ==
    \/ StartLecture
    \/ SelectCategory
    \/ SelectLecture
    \/ LecturesChanged
    \/ LecturesLoaded

SpecLecture == Init /\ [][NextLecture]_vars

\* -------------------------------------------------------------- properties
\* C1: completion handling issues at most one auto-save insert per
\* lifecycle, whichever path detects the completion and however often the page
\* is reloaded afterwards.
C1_AtMostOneAutoSubmission == autoIssued <= 1

\* a default 25-minute countdown that is running, has had no tick since it
\* was started, and has nothing submitted or pending
C2_Backgrounded ==
    /\ isRunning /\ initialMinutes = DefaultMinutes
    /\ remainingMs = DefaultMinutes * 60 * 1000 /\ endAtRef # 0
    /\ inflight = <<>> /\ autoIssued = 0 /\ lifeStored = 0

\* C2: a 25-minute timer is started, the clock passes endAt with no tick
\* delivered, and the page is reloaded: the restored timer is Finished
\* (finished, not running, remainingMs 0, in the state and in the snapshot),
\* autoSaved is true, and exactly one insert has been issued, with
\* duration_minutes = 25.
C2_BackgroundedReload ==
    [][(lastOp' = "mount" /\ C2_Backgrounded /\ now' >= endAtRef)
        => /\ isFinished' /\ ~isRunning' /\ remainingMs' = 0
           /\ storage'.finished /\ ~storage'.isRunning /\ storage'.remainingMs = 0
           /\ autoSavedRef' /\ storage'.autoSaved
           /\ autoIssued' = 1 /\ Len(inflight') = 1
           /\ inflight'[1].kind = "auto" /\ inflight'[1].duration_minutes = 25]_vars

\* C2 witness: the page was reloaded at the 25th minute of a countdown started
\* at 0 and the completion insert is pending
C2_Witness ==
    /\ lastOp = "mount" /\ now = DefaultMinutes * 60 * 1000 /\ isFinished
    /\ ranMs = -1 /\ autoIssued = 1 /\ lifeStored = 0 /\ Len(inflight) = 1
    /\ inflight[1].kind = "auto" /\ inflight[1].duration_minutes = 25

\* a timer of ScenarioMinutes, started with no insert pending, still running
\* when the clock has reached endAt, nothing submitted or pending
C3_Due ==
    /\ initialMinutes = ScenarioMinutes /\ clean /\ isRunning /\ tickRef
    /\ endAtRef # 0 /\ now >= endAtRef
    /\ inflight = <<>> /\ autoIssued = 0 /\ lifeStored = 0

\* once the auto-save row of such a timer is stored, a manual save is refused
\* and issues no insert
C3_AlreadySaved ==
    (initialMinutes = ScenarioMinutes /\ clean /\ autoStored >= 1)
        => (autoSavedRef /\ handleSaveManual(Machine, Render) = Machine)

\* C3: a 10-minute timer is started and a tick observes now >= endAt: exactly
\* one insert is issued, with duration_minutes = 10; and once its row is
\* stored, every manual save made before a reset, a duration change or a new
\* start is rejected and issues no insert.
C3_TickPath ==
    [][/\ (lastOp' = "tick" /\ C3_Due)
            => /\ isFinished' /\ autoIssued' = 1 /\ Len(inflight') = 1
               /\ inflight'[1].kind = "auto"
               /\ inflight'[1].duration_minutes = ScenarioMinutes
       /\ C3_AlreadySaved']_vars

\* C3 witness: the tick path completed the timer, its insert succeeded (the
\* snapshot is the one written from the tick's closure), and Save was pressed
\* and refused
C3_Witness ==
    /\ lastOp = "save" /\ initialMinutes = ScenarioMinutes /\ clean /\ isFinished
    /\ autoIssued = 1 /\ autoStored = 1 /\ autoSavedRef /\ inflight = <<>>
    /\ storage.isRunning /\ storage.finished

\* C4: when an auto-save insert fails, autoSaved is false afterwards (flag and
\* snapshot) and the next manual save is accepted and issues an insert; once
\* a manual save has succeeded a further manual save is rejected; and a
\* lifecycle whose auto-save failed (with no row stored before) never has more
\* than one stored row.
C4_ManualRetry ==
    [][/\ lastOp' = "autoFailed"
            => /\ ~autoSavedRef' /\ ~storage'.autoSaved
               /\ Len(handleSaveManual(Machine, Render)'.inflight) = Len(inflight') + 1
       /\ lastOp' = "manualSaved" => handleSaveManual(Machine, Render)' = Machine'
       /\ autoFailed' => lifeStored' <= 1]_vars

\* C5: over start, pause and resume with no reset, no duration change and no
\* completion (the running time has not exceeded the duration), at every
\* pause initialMinutes*60000 - remainingMs is the wall-clock time spent
\* Running.
C5_NoDrift ==
    (lastOp = "pause" /\ ranMs >= 0 /\ ranMs <= initialMinutes * 60000)
        => initialMinutes * 60000 - remainingMs = ranMs

\* C5 witness: a pause at 90 s of wall time of a timer that has been Running
\* for 60 s of them
C5_Witness ==
    /\ lastOp = "pause" /\ ~isRunning /\ now = 90000 /\ ranMs = 60000
    /\ remainingMs = initialMinutes * 60000 - 60000

\* C6: after the reset operation, from any state and with or without an
\* insert pending, finished, autoSaved and isRunning are false, endAt is unset
\* and remainingMs = initialMinutes*60000, in the state and in the snapshot.
C6_AfterReset ==
    [][lastOp' = "reset"
        => /\ ~isFinished' /\ ~autoSavedRef' /\ ~isRunning' /\ endAtRef' = 0
           /\ remainingMs' = initialMinutes' * 60000
           /\ ~storage'.finished /\ ~storage'.autoSaved /\ ~storage'.isRunning
           /\ storage'.endAt = 0
           /\ storage'.initialMinutes = initialMinutes'
           /\ storage'.remainingMs = initialMinutes' * 60000]_vars

\* C6 witness: the timer was reset from Finished while its auto-save insert
\* was pending
C6_Witness ==
    /\ lastOp = "reset" /\ Len(inflight) = 1 /\ inflight[1].kind = "auto"
    /\ ~inflight[1].cur /\ ~isFinished /\ ~autoSavedRef /\ isSaving

\* C7: a manual save made while the elapsed time is below 60000 ms, or while
\* autoSaved is true, issues no insert and changes nothing (state, refs,
\* snapshot); the minutes-and-seconds component likewise refuses below 60 s.
C7_SaveRejected ==
    /\ (initialMinutes * 60000 - remainingMs < MinSaveMs \/ autoSavedRef)
            => CommitRender(handleSaveManual(Machine, Render), Render, now) = Machine
    /\ \A s \in PomodoroTimerStates :
            s.initialMinutes * 60 - (s.minutes * 60 + s.seconds) < 60
                => PomodoroTimer_handleSave(s) = s

\* C7 witness: Save was pressed on a timer paused after 30 s and was refused
C7_Witness ==
    /\ lastOp = "save" /\ ~isRunning /\ ~autoSavedRef /\ ranMs = 30000
    /\ remainingMs = initialMinutes * 60000 - 30000 /\ inflight = <<>> /\ ~isSaving

\* C8: start with remainingMs = 0 is a no-op: the timer does not run, endAt
\* stays unset, finished, autoSaved and the snapshot are unchanged; the
\* minutes-and-seconds component likewise ignores start at 00:00.
C8_StartAtZero ==
    /\ remainingMs <= 0
            => CommitRender(handleStart(Machine, Render, now), Render, now) = Machine
    /\ \A s \in PomodoroTimerStates :
            (s.minutes = 0 /\ s.seconds = 0) => PomodoroTimer_handleStart(s) = s

\* C8 witness: Start was pressed on a finished timer and nothing happened
C8_Witness ==
    /\ lastOp = "start" /\ remainingMs = 0 /\ isFinished /\ ~isRunning /\ endAtRef = 0
    /\ storage.finished /\ ~storage.isRunning

\* C9: a reload of a Running timer before endAt leaves it Running with the
\* same endAt and remainingMs = endAt - now, in the state and in the snapshot.
C9_ReloadKeepsEndAt ==
    [][(lastOp' = "mount" /\ isRunning /\ endAtRef # 0 /\ now' < endAtRef)
        => /\ isRunning' /\ tickRef' /\ endAtRef' = endAtRef
           /\ remainingMs' = endAtRef - now'
           /\ storage'.isRunning /\ storage'.endAt = endAtRef]_vars

\* C10: after an auto-save insert of the lifecycle has failed, finished is
\* still true and remainingMs still 0, in the state and in the snapshot, and
\* autoSaved is false.
C10_FailureKeepsFinished ==
    [][lastOp' = "autoFailed"
        => /\ isFinished' /\ remainingMs' = 0 /\ ~autoSavedRef'
           /\ storage'.finished /\ storage'.remainingMs = 0
           /\ ~storage'.autoSaved]_vars

\* C11: in every snapshot that is written, isRunning = true implies that
\* endAt is set.
C11_RunningHasEndAt ==
    (storage # NoSnapshot /\ storage.isRunning) => storage.endAt # 0

\* the operations that begin the next lifecycle: reset (also the one a
\* successful manual save performs), duration change, start
BeginsLifecycle(op) ==
    op \in {"reset", "duration", "start", "manualSaved", "oldManualSaved"}

\* C12: once finished is true, in the state or in the snapshot, it stays true
\* until a reset, a duration change or a start begins the next lifecycle.
C12_FinishedMonotonic ==
    [][~BeginsLifecycle(lastOp')
        => /\ isFinished => isFinished'
           /\ (storage # NoSnapshot /\ storage.finished) => storage'.finished]_vars

\* C13: a page loaded over a missing snapshot, or over one whose version tag
\* is not the current one, is Idle with the defaults, runs no completion
\* handling and submits nothing.
C13_LostSnapshot ==
    [][lastOp' \in {"mountMissing", "mountOtherVersion"}
        => /\ Render' = DefaultState
           /\ endAtRef' = 0 /\ ~tickRef' /\ ~autoSavedRef'
           /\ inflight' = <<>> /\ autoIssued' = 0
           /\ storage'.version = STORAGE_VERSION
           /\ ~storage'.isRunning /\ ~storage'.finished /\ ~storage'.autoSaved
           /\ storage'.remainingMs = DefaultMinutes * 60 * 1000]_vars

\* C13 witness: the page was loaded at the 25th minute over a snapshot of
\* another version and stands at the defaults
C13_Witness ==
    /\ lastOp = "mountOtherVersion" /\ now = DefaultMinutes * 60 * 1000
    /\ Render = DefaultState /\ inflight = <<>> /\ ~storage.finished

\* C14: there is exactly one live interval while the timer is Running and
\* none while it is not, and tickRef holds it; an interval callback run while
\* the timer is not Running, from whatever render, changes nothing.
C14_OneTickCallback ==
    /\ liveTicks = (IF isRunning THEN 1 ELSE 0)
    /\ tickRef = isRunning
    /\ ~isRunning => \A c \in {effClosure, Render, DefaultState} :
                        tickCallback(Machine, c, now) = Machine

\* C14 witness: the timer was resumed after an earlier Running period and has
\* one live interval
C14_Witness ==
    lastOp = "start" /\ isRunning /\ ranMs > 0 /\ liveTicks = 1 /\ tickRef

\* C15: a duration change requested while the timer is Running changes nothing
\* (state, refs and snapshot), and no step that leaves the timer Running,
\* a reload from the snapshot included, changes initialMinutes.
C15_DurationFixedWhileRunning ==
    [][isRunning
        => /\ \A x \in DurationInputs \cup {MinMinutes, MaxMinutes + 1} :
                CommitRender(handleDurationChange(Machine, Render, x), Render, now)
                    = Machine
           /\ isRunning' => initialMinutes' = initialMinutes]_vars

\* C16: remainingMs is never negative, in the state and in the snapshot.
C16_RemainingNonNegative ==
    /\ remainingMs >= 0
    /\ storage # NoSnapshot => storage.remainingMs >= 0

\* C16 witness: the timer was paused after its endAt had passed
C16_Witness ==
    /\ lastOp = "pause" /\ remainingMs = 0 /\ storage.remainingMs = 0
    /\ now > 0 /\ ~isRunning

\* C17: every record that completion handling submits, on the tick path and
\* on the restore path after a reload, has duration_minutes equal to the
\* configured initialMinutes of the timer that completed.
C17_RecordHasConfiguredLength ==
    [][\A i \in 1..Len(inflight') :
          (/\ inflight'[i].kind = "auto"
           /\ \/ lastOp' = "mount"
              \/ lastOp' \in {"tick", "visible"} /\ i > Len(inflight))
          => inflight'[i].duration_minutes = initialMinutes']_vars

\* C18: when the page is reloaded while the auto-save insert of the completed
\* timer is pending and the insert is lost (no record of this lifecycle is
\* stored), the restore effect performs completion handling and submits the
\* record.
C18_InterruptedSaveRecovered ==
    [][(/\ lastOp' = "mount"
        /\ \E i \in 1..Len(inflight) : inflight[i].kind = "auto" /\ inflight[i].cur
        /\ lifeStored' = 0)
        => \E j \in 1..Len(inflight') : inflight'[j].kind = "auto"]_vars

\* C19: when a reload reads a snapshot whose autoSaved is true, a record of
\* that lifecycle is stored.
C19_AutoSavedMeansStored ==
    [][(lastOp' = "mount" /\ storage.version = STORAGE_VERSION /\ storage.autoSaved)
        => lifeStored' >= 1]_vars

\* C20: finished becomes true only in a step taken at or after the endAt of
\* the running countdown (the ref within a page session, the snapshot's endAt
\* on a load), an auto-save record is issued only with finished set, a
\* finished timer is not counting down towards a later endAt, and the first
\* interval callback, visibility event or load at or after endAt finishes the
\* timer.
C20_FinishedOnlyAtEndAt ==
    [][/\ (lastOp' \notin {"mount", "mountMissing", "mountOtherVersion"}
            /\ ~isFinished /\ isFinished')
          => (endAtRef # 0 /\ now' >= endAtRef)
       /\ (lastOp' = "mount" /\ ~isFinished /\ isFinished')
          => (storage.isRunning /\ storage.endAt # 0 /\ now' >= storage.endAt)
       /\ \A i \in 1..Len(inflight') :
             (inflight'[i].kind = "auto" /\ (lastOp' = "mount" \/ i > Len(inflight)))
             => isFinished'
       /\ isFinished' => ~(isRunning' /\ endAtRef' # 0 /\ now' < endAtRef')
       /\ (isRunning /\ endAtRef # 0 /\ now >= endAtRef)
          => /\ CommitRender(tickCallback(Machine, effClosure, now), Render, now).s.isFinished
             /\ CommitRender(onVis(Machine, effClosure, now), Render, now).s.isFinished
       /\ (lastOp' = "mount" /\ storage.isRunning /\ storage.endAt # 0
            /\ now' >= storage.endAt)
          => (isFinished' /\ ~isRunning')]_vars

\* C21: in every state, also one rebuilt by a reload after completion and
\* after the auto-save result was written, a finished timer is not running,
\* has no endAt and has remainingMs = 0.
C21_FinishedState ==
    isFinished => (~isRunning /\ endAtRef = 0 /\ remainingMs = 0)

\* C22: whenever no insert is pending, the snapshot's isRunning, endAt,
\* initialMinutes, finished and autoSaved equal the state's and the refs',
\* and so does its remainingMs while the timer is not running.
C22_SnapshotAgrees ==
    inflight = <<>>
    => /\ storage.isRunning = isRunning
       /\ storage.endAt = endAtRef
       /\ storage.initialMinutes = initialMinutes
       /\ storage.finished = isFinished
       /\ storage.autoSaved = autoSavedRef
       /\ ~isRunning => storage.remainingMs = remainingMs

\* C23: an accepted manual save submits duration_minutes =
\* ceil((initialMinutes*60000 - remainingMs) / 60000) of the state it was
\* pressed in; when its insert succeeds the timer is fully reset (not running,
\* no endAt, not finished, autoSaved clear, remainingMs = initialMinutes*60000);
\* when it fails, isRunning, endAt, remainingMs, finished, autoSaved and the
\* snapshot stay as they were.
C23_ManualSave ==
    [][/\ (lastOp' = "save" /\ Len(inflight') > Len(inflight))
          => /\ inflight'[Len(inflight')].kind = "manual"
             /\ inflight'[Len(inflight')].duration_minutes
                    = CeilMinutes(initialMinutes * 60 * 1000 - remainingMs)
       /\ lastOp' \in {"manualSaved", "oldManualSaved"}
          => /\ ~isRunning' /\ endAtRef' = 0 /\ ~isFinished' /\ ~autoSavedRef'
             /\ remainingMs' = initialMinutes' * 60 * 1000
       /\ lastOp' \in {"manualFailed", "oldManualFailed"}
          => /\ isRunning' = isRunning /\ endAtRef' = endAtRef
             /\ remainingMs' = remainingMs /\ isFinished' = isFinished
             /\ autoSavedRef' = autoSavedRef /\ storage' = storage]_vars

\* the timer is stopped with its full duration remaining
Idle == ~isRunning /\ ~isFinished /\ remainingMs = initialMinutes * 60 * 1000

\* C24 as stated: a manual save issues an insert only while the timer is
\* Running or Paused, never in Idle and never in Finished.
C24_OnlyRunningOrPaused ==
    [][(lastOp' = "save" /\ Len(inflight') > Len(inflight))
        => (~Idle /\ ~isFinished)]_vars

\* C24 as the code has it: a manual save issues an insert only when the timer
\* is not Idle, at least one minute has elapsed and autoSavedRef is clear; in
\* Finished that is the retry after a failed auto-save, and with autoSavedRef
\* set a manual save changes nothing.
C24_SaveAccepted ==
    [][/\ (lastOp' = "save" /\ Len(inflight') > Len(inflight))
          => /\ ~Idle /\ ~autoSavedRef
             /\ initialMinutes * 60 * 1000 - remainingMs >= MinSaveMs
       /\ (Idle \/ autoSavedRef)
          => CommitRender(handleSaveManual(Machine, Render), Render, now) = Machine]_vars

\* C24 witness: a manual save was accepted in Finished, after the auto-save
\* of the 25 minutes failed
C24_Witness ==
    /\ lastOp = "save" /\ isFinished /\ remainingMs = 0 /\ ~autoSavedRef
    /\ Len(inflight) = 1 /\ inflight[1].kind = "manual"
    /\ inflight[1].duration_minutes = DefaultMinutes

\* C25: every record the timer submits, by auto-save or by manual save, has
\* 1 <= duration_minutes <= initialMinutes <= 999, initialMinutes being the
\* configured length of the timer when the record is submitted.
C25_DurationInRange ==
    [][\A i \in 1..Len(inflight') :
          (lastOp' = "mount" \/ i > Len(inflight))
          => /\ MinMinutes <= inflight'[i].duration_minutes
             /\ inflight'[i].duration_minutes <= initialMinutes'
             /\ initialMinutes' <= MaxMinutes]_vars

\* C26: while the insert of a manual save of the current lifecycle is pending,
\* the interval callback or visibility handler that detects completion issues
\* no second insert.
C26_NoSecondRecord ==
    [][(/\ lastOp' \in {"tick", "visible"}
        /\ \E i \in 1..Len(inflight) : inflight[i].kind = "manual" /\ inflight[i].cur)
        => Len(inflight') = Len(inflight)]_vars

\* C27: the result of an insert issued in an earlier lifecycle (before a
\* reset, a duration change or a new start) changes neither autoSaved nor
\* finished of the present one, in the state, the ref and the snapshot.
C27_LateResultIsInert ==
    [][lastOp' \in {"oldAutoSaved", "oldAutoFailed", "oldManualSaved", "oldManualFailed"}
        => /\ autoSavedRef' = autoSavedRef /\ isFinished' = isFinished
           /\ storage'.autoSaved = storage.autoSaved
           /\ storage'.finished = storage.finished]_vars

\* C28: no state is stopped at remainingMs = 0 without being finished; a
\* pause pressed after endAt has passed ends in Finished.
C28_ZeroMeansFinished ==
    (~isRunning /\ remainingMs = 0) => isFinished

\* C29: the record that the restore effect submits for a countdown that ended
\* before the page was loaded carries the session name kept in the snapshot,
\* and the default label only when that name is blank.
C29_RestoredRecordName ==
    [][\A i \in 1..Len(inflight') :
          (lastOp' = "mount" /\ inflight'[i].kind = "auto")
          => inflight'[i].name = (IF storage.sessionName = "" THEN DefaultName
                                  ELSE storage.sessionName)]_vars

\* C30: once the start-lecture shortcut has set subject and lecture and no
\* loadLectures call is pending any more, selectedLectureId is the lecture
\* the shortcut asked for.
C30_ShortcutKeepsLecture ==
    (requested # "none" /\ lectureLoads = <<>>) => selectedLectureId = requested

=============================================================================
